---- MODULE Spec2Model ----
(***************************************************************************)
(* Model of src/main.py: the carousel training-set builder.                *)
(*                                                                         *)
(*   - the trailing-window engine ventana_prev_21d, checked on its own     *)
(*     under SpecWin;                                                      *)
(*   - the whole run of construir_dataset, statement by statement, under   *)
(*     Spec.                                                               *)
(*                                                                         *)
(* Days are day numbers (integers); a table of daily aggregates is a set   *)
(* of rows, unique per (user_id, value_prop, day); an event log is a       *)
(* sequence of rows, in file order.                                        *)
(*                                                                         *)
(* Scope of the inputs: every sound line carries a value_prop and a        *)
(* position, and its day is a whole calendar day. A file that is not       *)
(* parseable as JSON Lines or CSV, and a failure of to_csv while writing,  *)
(* are left out.                                                           *)
(***************************************************************************)
EXTENDS Integers, Sequences, FiniteSets, TLC

VARIABLES
    df,         \* SpecWin: the daily-aggregate table handed to ventana_prev_21d
    roll,       \* SpecWin: what ventana_prev_21d returned for df
    entrada,    \* Spec: the input directory: the three files of the run
    pc,         \* Spec: the statement construir_dataset is at
    error,      \* Spec: the exception that ended the run, "" while there is none
    prints_raw, \* Spec: what cargar_jsonl returned for prints.json
    taps_raw,   \* Spec: what cargar_jsonl returned for taps.json
    pays_raw,   \* Spec: what read_csv returned for pays.csv
    prints,     \* Spec: the normalized impressions
    taps,       \* Spec: the normalized taps
    pays,       \* Spec: the validated payments
    salida      \* Spec: the output file: whether written, its header, its rows

winvars == <<df, roll>>
runvars == <<entrada, pc, error, prints_raw, taps_raw, pays_raw, prints, taps, pays, salida>>
vars    == <<df, roll, entrada, pc, error, prints_raw, taps_raw, pays_raw, prints, taps,
             pays, salida>>

----------------------------------------------------------------------------
(* Values *)

\* rolling(window=21), main.py line 105
Window == 21

\* The missing value (NaN, NaT, None): what shift(1) leaves on the first day, what an
\* unmatched left join leaves, what errors="coerce" turns an unparseable text into.
\* Every real value of the model is >= 0.
NaN == -1

\* A text that is neither a date nor a number.
BadText == -2

isna(x) == x = NaN

Max(a, b) == IF a >= b THEN a ELSE b

RECURSIVE SumRange(_, _, _)
\* s[a] + ... + s[b], 0 when a > b
SumRange(s, a, b) == IF a > b THEN 0 ELSE s[a] + SumRange(s, a + 1, b)

----------------------------------------------------------------------------
(* ventana_prev_21d, main.py lines 86-115 *)

\* df.groupby(["user_id", "value_prop"]): the group keys
GroupKeys(t) == {<<r.user_id, r.value_prop>> : r \in t}

\* the rows of one group
Grupo(t, k) == {r \in t : r.user_id = k[1] /\ r.value_prop = k[2]}

MinDay(g) == CHOOSE d \in {r.day : r \in g} : \A r \in g : d <= r.day
MaxDay(g) == CHOOSE d \in {r.day : r \in g} : \A r \in g : d >= r.day

\* pd.date_range(a, b, freq="D"): every calendar day from a to b
date_range(a, b) == [i \in 1..(b - a + 1) |-> a + i - 1]

\* grupo.set_index("day")[col].reindex(idx, fill_value=0)
reindex(g, col, idx) ==
    [i \in DOMAIN idx |->
        IF \E r \in g : r.day = idx[i]
        THEN (CHOOSE r \in g : r.day = idx[i])[col]
        ELSE 0]

\* ts.rolling(window=w, min_periods=1).sum(): the sum of the last w entries up to
\* and including the current one, over as many as there are
rolling_sum(ts, w) ==
    [i \in DOMAIN ts |-> SumRange(ts, Max(1, i - w + 1), i)]

\* .shift(1): every value moves one day later; the first day has none
shift_mut_none(s) == s
shift(s) == [i \in DOMAIN s |-> IF i = 1 THEN NaN ELSE s[i - 1]]

\* .fillna(x)
fillna(s, x) == [i \in DOMAIN s |-> IF isna(s[i]) THEN x ELSE s[i]]

\* the trailing sums of one group, one row per day of idx (lines 103-108)
prev_grupo_mut_w20(g, col, k) ==
    LET idx  == date_range(MinDay(g), MaxDay(g))
        ts   == reindex(g, col, idx)
        prev == fillna(shift(rolling_sum(ts, Window - 1)), 0)
    IN  {[day |-> idx[i], prev |-> prev[i], user_id |-> k[1], value_prop |-> k[2]]
            : i \in DOMAIN idx}
prev_grupo(g, col, k) ==
    LET idx  == date_range(MinDay(g), MaxDay(g))
        ts   == reindex(g, col, idx)
        prev == fillna(shift(rolling_sum(ts, Window)), 0)
    IN  {[day |-> idx[i], prev |-> prev[i], user_id |-> k[1], value_prop |-> k[2]]
            : i \in DOMAIN idx}

\* the whole function: empty in, empty out; else the groups' rows put together
ventana_prev_21d(t, col) ==
    IF t = {} THEN {}
    ELSE UNION {prev_grupo(Grupo(t, k), col, k) : k \in GroupKeys(t)}

----------------------------------------------------------------------------
(* Validation and loading, main.py lines 31-50 *)

\* the value of a finished step: the exception raised ("" for none) and the table
Ok(t)    == [err |-> "", tabla |-> t]
Raise(e) == [err |-> e, tabla |-> <<>>]

\* _validar_columnas: some required column is not among the table's
faltan_columnas(cols, requeridas) == \E c \in requeridas : c \notin cols

\* cargar_jsonl: the file must exist; its table has the keys of its lines as columns,
\* so the table of a file with no line has no column either (and only draws a warning)
cargar_jsonl(f) ==
    IF ~f.existe THEN Raise("FileNotFoundError")
    ELSE Ok([cols |-> IF f.rows = <<>> THEN {} ELSE f.cols, rows |-> f.rows])

\* _asegurar_archivo and pd.read_csv (lines 128-132): a file without a header line
\* cannot be read; one with a header and no row is an empty table with its columns
leer_pays(f) ==
    IF ~f.existe THEN Raise("FileNotFoundError")
    ELSE IF f.cols = {} THEN Raise("ValueError")
    ELSE Ok([cols |-> f.cols, rows |-> f.rows])

\* pd.to_datetime(x, errors="coerce") and pd.to_numeric(x, errors="coerce")
to_datetime(x) == IF x = BadText \/ isna(x) THEN NaN ELSE x
to_numeric(x)  == IF x = BadText \/ isna(x) THEN NaN ELSE x

----------------------------------------------------------------------------
(* normalizar_eventos, main.py lines 52-76 *)

aplanar(r) ==
    [day        |-> to_datetime(r.day),
     user_id    |-> r.user_id,
     value_prop |-> r.event_data.value_prop,
     position   |-> r.event_data.position]

normalizar_eventos(raw) ==
    IF faltan_columnas(raw.cols, {"day", "user_id", "event_data"})
        THEN Raise("ValueError")
    ELSE IF \E i \in DOMAIN raw.rows : ~raw.rows[i].event_data.is_dict
        THEN Raise("TypeError")
    ELSE LET out == [i \in DOMAIN raw.rows |-> aplanar(raw.rows[i])] IN
         IF \E i \in DOMAIN out : isna(out[i].day) THEN Raise("ValueError")
         ELSE IF \E i \in DOMAIN out : isna(out[i].user_id) THEN Raise("ValueError")
         ELSE Ok(out)

----------------------------------------------------------------------------
(* the payments table, main.py lines 139-149 *)

\* pays["amount"].isna().any()
montos_invalidos_mut_skip(out) == FALSE
montos_invalidos(out) == \E i \in DOMAIN out : isna(out[i].amount)

validar_pays(raw) ==
    IF faltan_columnas(raw.cols, {"pay_date", "user_id", "value_prop", "total"})
        THEN Raise("ValueError")
    ELSE LET out == [i \in DOMAIN raw.rows |->
                        [day        |-> to_datetime(raw.rows[i].pay_date),
                         user_id    |-> raw.rows[i].user_id,
                         value_prop |-> raw.rows[i].value_prop,
                         amount     |-> to_numeric(raw.rows[i].total)]] IN
         IF \E i \in DOMAIN out : isna(out[i].day) THEN Raise("ValueError")
         ELSE IF montos_invalidos(out) THEN Raise("ValueError")
         ELSE Ok(out)

----------------------------------------------------------------------------
(* Daily aggregation, main.py lines 79-84 and 176-182 *)

\* the (user_id, value_prop, day) keys of a log: what groupby groups by
ClavesDia(log) ==
    {[user_id |-> log[i].user_id, value_prop |-> log[i].value_prop, day |-> log[i].day]
        : i \in DOMAIN log}

\* the rows of the log with the key c
IndicesDe(log, c) ==
    {i \in DOMAIN log : /\ log[i].user_id = c.user_id
                        /\ log[i].value_prop = c.value_prop
                        /\ log[i].day = c.day}

RECURSIVE SumaIdx(_, _, _)
SumaIdx(log, col, I) ==
    IF I = {} THEN 0
    ELSE LET i == CHOOSE x \in I : TRUE IN log[i][col] + SumaIdx(log, col, I \ {i})

\* conteos_diarios: groupby(...).size(), one row per key with the number of its rows
conteos_diarios(log, nombre_columna) ==
    IF log = <<>> THEN {}
    ELSE {c @@ (nombre_columna :> Cardinality(IndicesDe(log, c))) : c \in ClavesDia(log)}

\* lines 176-182: count and summed amount per key, joined on the key
pays_diarios_de(log) ==
    IF log = <<>> THEN {}
    ELSE LET pays_cnt == {c @@ ("payments" :> Cardinality(IndicesDe(log, c)))
                             : c \in ClavesDia(log)}
             pays_amt == {c @@ ("amount" :> SumaIdx(log, "amount", IndicesDe(log, c)))
                             : c \in ClavesDia(log)}
         IN  {[user_id |-> a.user_id, value_prop |-> a.value_prop, day |-> a.day,
               payments |-> a.payments, amount |-> b.amount]
                 : <<a, b>> \in {x \in pays_cnt \X pays_amt :
                                    /\ x[1].user_id = x[2].user_id
                                    /\ x[1].value_prop = x[2].value_prop
                                    /\ x[1].day = x[2].day}}

----------------------------------------------------------------------------
(* The assembler, main.py lines 151-233 *)

\* timedelta(days=6), line 163
DiasSemana == 6

\* the fixed header of an empty output, lines 154-155 and 167-168
Columnas ==
    <<"day", "user_id", "value_prop", "position", "clicked",
      "prints_prev_3w", "taps_prev_3w", "payments_prev_3w", "amount_prev_3w">>

Historicas == <<"prints_prev_3w", "taps_prev_3w", "payments_prev_3w", "amount_prev_3w">>

\* prints["day"].max()
max_day_de(log) ==
    CHOOSE d \in {log[i].day : i \in DOMAIN log} : \A i \in DOMAIN log : d >= log[i].day

\* lines 163-164: the first day of the target week
inicio_semana_mut_7(max_day) == max_day - (DiasSemana + 1)
inicio_semana(max_day) == max_day - DiasSemana

prints_semana_de(log) ==
    LET max_day == max_day_de(log) IN
    SelectSeq(log, LAMBDA r : r.day >= inicio_semana(max_day) /\ r.day <= max_day)

\* line 173: the impressions the daily counts of prints are taken from
base_prints_diarios_mut_semana(log) == prints_semana_de(log)
base_prints_diarios(log) == log

RECURSIVE SetToSeq(_)
SetToSeq(S) ==
    IF S = {} THEN <<>>
    ELSE LET x == CHOOSE y \in S : TRUE IN <<x>> \o SetToSeq(S \ {x})

\* the rows of the right table with the key of the left row l
coinciden_mut_sin_dia(right, l) ==
    {r \in right : r.user_id = l.user_id /\ r.value_prop = l.value_prop}
coinciden(right, l) ==
    {r \in right : r.day = l.day /\ r.user_id = l.user_id /\ r.value_prop = l.value_prop}

RECURSIVE merge_left(_, _, _, _)
\* left.merge(right[keys + [col]], on=["day", "user_id", "value_prop"], how="left"):
\* every left row, in order, once per matching right row with its value in the new
\* column, or once with NaN when none matches
merge_left(left, right, col, nueva) ==
    IF left = <<>> THEN <<>>
    ELSE LET l  == Head(left)
             ms == SetToSeq(coinciden(right, l))
             filas == IF ms = <<>> THEN <<l @@ (nueva :> NaN)>>
                      ELSE [i \in DOMAIN ms |-> l @@ (nueva :> ms[i][col])]
         IN  filas \o merge_left(Tail(left), right, col, nueva)

\* features[c] = features[c].fillna(0)
fillna_col(t, c) == [i \in DOMAIN t |-> [t[i] EXCEPT ![c] = IF isna(@) THEN 0 ELSE @]]

\* features[c] = x
asignar_col(t, c, x) == [i \in DOMAIN t |-> t[i] @@ (c :> x)]

\* lines 193-203: the click label
con_clicked(features, taps_diarios) ==
    IF taps_diarios # {}
    THEN LET marcados == {r @@ ("clicked" :> IF r.taps > 0 THEN 1 ELSE 0)
                             : r \in taps_diarios}
         IN  fillna_col(merge_left(features, marcados, "clicked", "clicked"), "clicked")
    ELSE asignar_col(features, "clicked", 0)

\* the body of the loop of lines 206-219 for one historical table
unir_roll(features, roll_df, nueva) ==
    IF roll_df # {} THEN merge_left(features, roll_df, "prev", nueva) ELSE features

\* the body of the loop of lines 222-226 for one column
rellenar(features, c, tiene) ==
    IF ~tiene THEN asignar_col(features, c, 0) ELSE fillna_col(features, c)

\* the order of sort_values(["day", "user_id", "value_prop", "position"])
MenorIgual(a, b) ==
    \/ a.day < b.day
    \/ /\ a.day = b.day
       /\ \/ a.user_id < b.user_id
          \/ /\ a.user_id = b.user_id
             /\ \/ a.value_prop < b.value_prop
                \/ /\ a.value_prop = b.value_prop
                   /\ a.position <= b.position

RECURSIVE Insertar(_, _)
Insertar(x, s) ==
    IF s = <<>> THEN <<x>>
    ELSE IF MenorIgual(Head(s), x) THEN <<Head(s)>> \o Insertar(x, Tail(s))
    ELSE <<x>> \o s

RECURSIVE Ordenar(_)
Ordenar(s) == IF s = <<>> THEN <<>> ELSE Insertar(s[Len(s)], Ordenar(SubSeq(s, 1, Len(s) - 1)))

\* features.sort_values([...]).reset_index(drop=True)
sort_values_mut_solo_dia(s) ==
    LET dias == {s[i].day : i \in DOMAIN s} IN
    IF s = <<>> THEN <<>>
    ELSE LET RECURSIVE PorDia(_)
             PorDia(D) ==
                 IF D = {} THEN <<>>
                 ELSE LET d == CHOOSE x \in D : \A y \in D : x <= y
                      IN  SelectSeq(s, LAMBDA r : r.day = d) \o PorDia(D \ {d})
         IN  PorDia(dias)
sort_values(s) == Ordenar(s)

\* the columns of features after the joins and the fill, in the order they were added
cabecera_de(rp, rt, rg, rm) ==
    LET presentes == <<rp # {}, rt # {}, rg # {}, rm # {}>>
        unidas == SelectSeq(<<1, 2, 3, 4>>, LAMBDA i : presentes[i])
        nuevas == SelectSeq(<<1, 2, 3, 4>>, LAMBDA i : ~presentes[i])
    IN  <<"day", "user_id", "value_prop", "position", "clicked">>
        \o [i \in DOMAIN unidas |-> Historicas[unidas[i]]]
        \o [i \in DOMAIN nuevas |-> Historicas[nuevas[i]]]

Escrito(cab, filas) == [escrito |-> TRUE, cabecera |-> cab, filas |-> filas]
SinEscribir == [escrito |-> FALSE, cabecera |-> <<>>, filas |-> <<>>]

\* lines 151-233, from the validated tables to the written file
ensamblar(p, t, y) ==
    IF p = <<>> THEN Escrito(Columnas, <<>>)
    ELSE LET prints_semana == prints_semana_de(p) IN
    IF prints_semana = <<>> THEN Escrito(Columnas, <<>>)
    ELSE LET prints_diarios == conteos_diarios(base_prints_diarios(p), "prints")
             taps_diarios   == conteos_diarios(t, "taps")
             pays_diarios   == pays_diarios_de(y)
             roll_prints == ventana_prev_21d(prints_diarios, "prints")
             roll_taps   == ventana_prev_21d(taps_diarios, "taps")
             roll_pagos  == ventana_prev_21d(pays_diarios, "payments")
             roll_montos == ventana_prev_21d(pays_diarios, "amount")
             f0 == con_clicked(prints_semana, taps_diarios)
             f1 == unir_roll(f0, roll_prints, "prints_prev_3w")
             f2 == unir_roll(f1, roll_taps, "taps_prev_3w")
             f3 == unir_roll(f2, roll_pagos, "payments_prev_3w")
             f4 == unir_roll(f3, roll_montos, "amount_prev_3w")
             g1 == rellenar(f4, "prints_prev_3w", roll_prints # {})
             g2 == rellenar(g1, "taps_prev_3w", roll_taps # {})
             g3 == rellenar(g2, "payments_prev_3w", roll_pagos # {})
             g4 == rellenar(g3, "amount_prev_3w", roll_montos # {})
         IN  Escrito(cabecera_de(roll_prints, roll_taps, roll_pagos, roll_montos),
                     sort_values(g4))

----------------------------------------------------------------------------
(* Spec: one run of construir_dataset over every small input directory *)

\* how many lines prints.json, taps.json and pays.csv may hold in total
MaxLineas == 3

ColsEventos == {"day", "user_id", "event_data"}
ColsPays    == {"pay_date", "user_id", "value_prop", "total"}

\* the impression days: with the latest on day 22 the target week is 16..22 (15 is the
\* last day before it) and day 22's window is 1..21 (0 is the last day before it)
DiasPrints == {0, 1, 15, 16, 22}
\* (user_id, value_prop, position) of an impression
Tarjetas   == {<<1, 1, 1>>, <<1, 1, 2>>, <<1, 2, 1>>, <<2, 1, 1>>}
DiasTaps   == {1, 22, 23}
ClavesTaps == {<<1, 1>>, <<1, 2>>, <<2, 1>>}
DiasPays   == {1, 23}
ClavesPays == {<<1, 1>>}
Montos     == {5}

Evento(d, u, v, p) ==
    [day |-> d, user_id |-> u,
     event_data |-> [is_dict |-> TRUE, value_prop |-> v, position |-> p]]

LineasPrints == {Evento(d, c[1], c[2], c[3]) : d \in DiasPrints, c \in Tarjetas}
LineasTaps   == {Evento(d, c[1], c[2], 1) : d \in DiasTaps, c \in ClavesTaps}
LineasPays   == {[pay_date |-> d, user_id |-> c[1], value_prop |-> c[2], total |-> m]
                    : d \in DiasPays, c \in ClavesPays, m \in Montos}

\* a total order on the lines of taps.json and pays.csv, to list each multiset of
\* lines once: the run groups and counts these lines, so their order changes nothing
AntesTap(a, b) ==
    \/ a.day < b.day
    \/ /\ a.day = b.day
       /\ \/ a.user_id < b.user_id
          \/ /\ a.user_id = b.user_id
             /\ a.event_data.value_prop <= b.event_data.value_prop
AntesPay(a, b) ==
    \/ a.pay_date < b.pay_date
    \/ a.pay_date = b.pay_date /\ a.total <= b.total

ArchivoEventos(rows) == [existe |-> TRUE, cols |-> ColsEventos, rows |-> rows]
ArchivoPays(rows)    == [existe |-> TRUE, cols |-> ColsPays, rows |-> rows]

\* the sound files of n lines
PrintsValidos(n) == {ArchivoEventos(s) : s \in [1..n -> LineasPrints]}
TapsValidos(n) ==
    {ArchivoEventos(s) : s \in {x \in [1..n -> LineasTaps] :
        \A i \in 1..(n - 1) : AntesTap(x[i], x[i + 1])}}
PaysValidos(n) ==
    {ArchivoPays(s) : s \in {x \in [1..n -> LineasPays] :
        \A i \in 1..(n - 1) : AntesPay(x[i], x[i + 1])}}

\* the defects a file of events can have, each on a one-line file
EventosDefectuosos ==
    LET e == Evento(22, 1, 1, 1) IN
    { [existe |-> FALSE, cols |-> {}, rows |-> <<>>],
      [existe |-> TRUE, cols |-> {"day", "user_id"},
       rows |-> <<[day |-> 22, user_id |-> 1]>>],
      ArchivoEventos(<<[e EXCEPT !.event_data.is_dict = FALSE]>>),
      ArchivoEventos(<<[e EXCEPT !.day = BadText]>>),
      ArchivoEventos(<<[e EXCEPT !.user_id = NaN]>>) }

\* the defects of pays.csv: missing, no header line, a column short, a bad date, a
\* total that is no number
PaysDefectuosos ==
    LET y == [pay_date |-> 1, user_id |-> 1, value_prop |-> 1, total |-> 5] IN
    { [existe |-> FALSE, cols |-> {}, rows |-> <<>>],
      [existe |-> TRUE, cols |-> {}, rows |-> <<>>],
      [existe |-> TRUE, cols |-> ColsPays \ {"total"},
       rows |-> <<[pay_date |-> 1, user_id |-> 1, value_prop |-> 1]>>],
      ArchivoPays(<<[y EXCEPT !.pay_date = BadText]>>),
      ArchivoPays(<<[y EXCEPT !.total = BadText]>>) }

\* a few sound files to put beside a defective one
PrintsBase == {ArchivoEventos(<<>>), ArchivoEventos(<<Evento(22, 1, 1, 1)>>)}
TapsBase   == {ArchivoEventos(<<>>), ArchivoEventos(<<Evento(22, 1, 1, 1)>>)}
PaysBase   == {ArchivoPays(<<>>),
               ArchivoPays(<<[pay_date |-> 1, user_id |-> 1, value_prop |-> 1, total |-> 5]>>)}

Directorio(p, t, y) == [es_dir |-> TRUE, prints |-> p, taps |-> t, pays |-> y]

\* the input directories of the model: every combination of sound files of at most
\* MaxLineas lines in all,
EntradaValida(e) ==
    \E n \in {m \in (0..MaxLineas) \X (0..MaxLineas) \X (0..MaxLineas) :
                m[1] + m[2] + m[3] <= MaxLineas} :
        \E p \in PrintsValidos(n[1]), t \in TapsValidos(n[2]), y \in PaysValidos(n[3]) :
            e = Directorio(p, t, y)

\* every combination of base and defective files,
EntradaDefectuosa(e) ==
    \E p \in PrintsBase \cup EventosDefectuosos,
       t \in TapsBase \cup EventosDefectuosos,
       y \in PaysBase \cup PaysDefectuosos :
        e = Directorio(p, t, y)

\* and a path that is no directory
EntradaSinDirectorio(e) ==
    e = [Directorio(ArchivoEventos(<<>>), ArchivoEventos(<<>>), ArchivoPays(<<>>))
            EXCEPT !.es_dir = FALSE]

Init ==
    /\ \/ EntradaValida(entrada)
       \/ EntradaDefectuosa(entrada)
       \/ EntradaSinDirectorio(entrada)
    /\ pc = "cargar_prints"
    /\ error = ""
    /\ prints_raw = <<>> /\ taps_raw = <<>> /\ pays_raw = <<>>
    /\ prints = <<>> /\ taps = <<>> /\ pays = <<>>
    /\ salida = SinEscribir
    /\ df = {} /\ roll = {}

\* a step that raised: the run ends there (main logs the reason and exits 1)
Falla(e) == pc' = "error" /\ error' = e

\* lines 122-126: the directory check and prints_raw = cargar_jsonl(prints.json)
CargarPrints ==
    /\ pc = "cargar_prints"
    /\ IF ~entrada.es_dir
       THEN Falla("NotADirectoryError") /\ UNCHANGED prints_raw
       ELSE LET r == cargar_jsonl(entrada.prints) IN
            IF r.err # "" THEN Falla(r.err) /\ UNCHANGED prints_raw
            ELSE pc' = "cargar_taps" /\ prints_raw' = r.tabla /\ UNCHANGED error
    /\ UNCHANGED <<df, roll, entrada, taps_raw, pays_raw, prints, taps, pays, salida>>

\* line 127: taps_raw = cargar_jsonl(taps.json)
CargarTaps ==
    /\ pc = "cargar_taps"
    /\ LET r == cargar_jsonl(entrada.taps) IN
       IF r.err # "" THEN Falla(r.err) /\ UNCHANGED taps_raw
       ELSE pc' = "leer_pays" /\ taps_raw' = r.tabla /\ UNCHANGED error
    /\ UNCHANGED <<df, roll, entrada, prints_raw, pays_raw, prints, taps, pays, salida>>

\* lines 128-132: pays_raw = pd.read_csv(pays.csv)
LeerPays ==
    /\ pc = "leer_pays"
    /\ LET r == leer_pays(entrada.pays) IN
       IF r.err # "" THEN Falla(r.err) /\ UNCHANGED pays_raw
       ELSE pc' = "normalizar_prints" /\ pays_raw' = r.tabla /\ UNCHANGED error
    /\ UNCHANGED <<df, roll, entrada, prints_raw, taps_raw, prints, taps, pays, salida>>

\* line 135: prints = normalizar_eventos(prints_raw, "day")
NormalizarPrints ==
    /\ pc = "normalizar_prints"
    /\ LET r == normalizar_eventos(prints_raw) IN
       IF r.err # "" THEN Falla(r.err) /\ UNCHANGED prints
       ELSE pc' = "normalizar_taps" /\ prints' = r.tabla /\ UNCHANGED error
    /\ UNCHANGED <<df, roll, entrada, prints_raw, taps_raw, pays_raw, taps, pays, salida>>

\* line 136: taps = normalizar_eventos(taps_raw, "day")
NormalizarTaps ==
    /\ pc = "normalizar_taps"
    /\ LET r == normalizar_eventos(taps_raw) IN
       IF r.err # "" THEN Falla(r.err) /\ UNCHANGED taps
       ELSE pc' = "validar_pays" /\ taps' = r.tabla /\ UNCHANGED error
    /\ UNCHANGED <<df, roll, entrada, prints_raw, taps_raw, pays_raw, prints, pays, salida>>

\* lines 139-149: the columns, dates and amounts of pays
ValidarPays ==
    /\ pc = "validar_pays"
    /\ LET r == validar_pays(pays_raw) IN
       IF r.err # "" THEN Falla(r.err) /\ UNCHANGED pays
       ELSE pc' = "ensamblar" /\ pays' = r.tabla /\ UNCHANGED error
    /\ UNCHANGED <<df, roll, entrada, prints_raw, taps_raw, pays_raw, prints, taps, salida>>

\* lines 151-233: the empty outputs, or the aggregations, the joins, the sort and
\* the write of the output file
Ensamblar ==
    /\ pc = "ensamblar"
    /\ salida' = ensamblar(prints, taps, pays)
    /\ pc' = "done"
    /\ UNCHANGED <<df, roll, entrada, error, prints_raw, taps_raw, pays_raw, prints, taps,
                   pays>>

Next ==
    \/ CargarPrints
    \/ CargarTaps
    \/ LeerPays
    \/ NormalizarPrints
    \/ NormalizarTaps
    \/ ValidarPays
    \/ Ensamblar

Spec == Init /\ [][Next]_vars

----------------------------------------------------------------------------
(* SpecWin: ventana_prev_21d applied to every small daily-aggregate table *)

\* how many rows the table under test may hold
MaxActive == 3

WinUsers  == {1, 2}
WinOffers == {1}
\* the days a row may fall on: 25 - 21 = 4 is the oldest day in day 25's window,
\* 3 the first one outside it
WinDays   == {1, 3, 4, 5, 24, 25}
WinVals   == {1, 2}

\* the table with the row of (u, v, d) set to the value m, or removed when m = 0
PonerFila(t, u, v, d, m) ==
    LET resto == {r \in t : ~(r.user_id = u /\ r.value_prop = v /\ r.day = d)}
    IN  IF m = 0 THEN resto
        ELSE resto \cup {[user_id |-> u, value_prop |-> v, day |-> d, metric |-> m]}

\* the variables of the run, which SpecWin leaves alone
RunIdle ==
    /\ entrada = <<>> /\ pc = "idle" /\ error = ""
    /\ prints_raw = <<>> /\ taps_raw = <<>> /\ pays_raw = <<>>
    /\ prints = <<>> /\ taps = <<>> /\ pays = <<>> /\ salida = <<>>

WinInit ==
    /\ df = {}
    /\ roll = ventana_prev_21d(df, "metric")
    /\ RunIdle

\* one more run of the function, on a table that differs from the last in one row
Recalcular ==
    \E u \in WinUsers, v \in WinOffers, d \in WinDays, m \in WinVals \cup {0} :
        /\ df' = PonerFila(df, u, v, d, m)
        /\ df' # df
        /\ Cardinality(df') <= MaxActive
        /\ roll' = ventana_prev_21d(df', "metric")
        /\ UNCHANGED runvars

WinNext == Recalcular

SpecWin == WinInit /\ [][WinNext]_vars

----------------------------------------------------------------------------
(* Claims about construir_dataset (Spec), stated over the lines of the input files *)

LineasP == entrada.prints.rows
LineasT == entrada.taps.rows
LineasY == entrada.pays.rows

Filas == salida.filas

\* the lines of an event file of user u and offer v on the days a..b
EventosEn(lineas, u, v, a, b) ==
    {j \in DOMAIN lineas :
        /\ lineas[j].user_id = u /\ lineas[j].event_data.value_prop = v
        /\ a <= lineas[j].day /\ lineas[j].day <= b}

\* the lines of pays.csv of user u and offer v on the days a..b
PagosEn(u, v, a, b) ==
    {j \in DOMAIN LineasY :
        /\ LineasY[j].user_id = u /\ LineasY[j].value_prop = v
        /\ a <= LineasY[j].pay_date /\ LineasY[j].pay_date <= b}

RECURSIVE TotalDe(_)
TotalDe(J) ==
    IF J = {} THEN 0
    ELSE LET j == CHOOSE x \in J : TRUE IN LineasY[j].total + TotalDe(J \ {j})

\* the latest impression day
UltimoDia == CHOOSE d \in {LineasP[j].day : j \in DOMAIN LineasP} :
                 \A j \in DOMAIN LineasP : d >= LineasP[j].day

\* C3 as claimed: on every output row the tap, payment-count and payment-amount
\* features are the totals of the row's user and offer over the 21 days before the
\* row's day.
C3_TapsAndPaymentsHistory ==
    pc = "done" =>
        \A i \in DOMAIN Filas :
            LET f == Filas[i] IN
            /\ f.taps_prev_3w =
                 Cardinality(EventosEn(LineasT, f.user_id, f.value_prop, f.day - 21, f.day - 1))
            /\ f.payments_prev_3w =
                 Cardinality(PagosEn(f.user_id, f.value_prop, f.day - 21, f.day - 1))
            /\ f.amount_prev_3w =
                 TotalDe(PagosEn(f.user_id, f.value_prop, f.day - 21, f.day - 1))

\* C4: on every output row prints_prev_3w is the number of impressions of the row's
\* user and offer, in the whole impression log, on the 21 days before the row's day.
C4_PrintsHistory ==
    pc = "done" =>
        \A i \in DOMAIN Filas :
            LET f == Filas[i] IN
            f.prints_prev_3w =
                Cardinality(EventosEn(LineasP, f.user_id, f.value_prop, f.day - 21, f.day - 1))

\* C4's case: a row of day 22 that counts an impression of day 1 (21 days before),
\* which lies outside the target week.
C4_Witness ==
    /\ pc = "done"
    /\ \E i \in DOMAIN Filas :
          /\ Filas[i].day = 22 /\ Filas[i].prints_prev_3w = 1
          /\ EventosEn(LineasP, Filas[i].user_id, Filas[i].value_prop, 1, 1) # {}

\* C5: every output row has clicked 0 or 1, and 1 exactly when the tap log holds a
\* tap of the row's day, user and offer.
C5_ClickLabel ==
    pc = "done" =>
        \A i \in DOMAIN Filas :
            LET f == Filas[i] IN
            /\ f.clicked \in {0, 1}
            /\ f.clicked = 1 <=>
                 EventosEn(LineasT, f.user_id, f.value_prop, f.day, f.day) # {}

\* C5's case: a clicked row, and a row of the same user and offer on another day
\* that is not clicked.
C5_Witness ==
    /\ pc = "done"
    /\ \E i, j \in DOMAIN Filas :
          /\ Filas[i].clicked = 1 /\ Filas[j].clicked = 0
          /\ Filas[i].user_id = Filas[j].user_id
          /\ Filas[i].value_prop = Filas[j].value_prop
          /\ Filas[i].day # Filas[j].day

\* a file the validations accept: it exists, has its columns, and every line is sound
EventosSanos(f) ==
    /\ f.existe /\ f.rows # <<>> /\ ColsEventos \subseteq f.cols
    /\ \A j \in DOMAIN f.rows :
          /\ f.rows[j].event_data.is_dict
          /\ f.rows[j].day >= 0 /\ f.rows[j].user_id >= 0
PaysSanos(f) ==
    /\ f.existe /\ ColsPays \subseteq f.cols
    /\ \A j \in DOMAIN f.rows : f.rows[j].pay_date >= 0 /\ f.rows[j].total >= 0

Terminado == pc \in {"done", "error"}

\* C6 as claimed: with an impression log of no line, and a sound tap log and payment
\* table, the run ends without an error and writes the 9-column header and no row.
C6_EmptyPrints ==
    ( /\ Terminado /\ entrada.es_dir
      /\ entrada.prints.existe /\ LineasP = <<>>
      /\ EventosSanos(entrada.taps) /\ PaysSanos(entrada.pays) )
    => /\ pc = "done"
       /\ salida.escrito /\ salida.cabecera = Columnas /\ Filas = <<>>

\* C7 as claimed: with a tap log of no line and a sound impression log, the run ends
\* without an error and writes one row per impression of the target week, each with
\* clicked = 0 and taps_prev_3w = 0.
C7_EmptyTaps ==
    ( /\ Terminado /\ entrada.es_dir
      /\ entrada.taps.existe /\ LineasT = <<>>
      /\ EventosSanos(entrada.prints) /\ PaysSanos(entrada.pays) )
    => /\ pc = "done"
       /\ salida.escrito
       /\ Len(Filas) = Cardinality({j \in DOMAIN LineasP : LineasP[j].day >= UltimoDia - 6})
       /\ \A i \in DOMAIN Filas : Filas[i].clicked = 0 /\ Filas[i].taps_prev_3w = 0

\* the lexicographic order on (day, user_id, value_prop, position)
ClaveOrden(f) == <<f.day, f.user_id, f.value_prop, f.position>>
LexMenor(a, b) ==
    \E n \in 1..4 : /\ \A m \in 1..(n - 1) : ClaveOrden(a)[m] = ClaveOrden(b)[m]
                    /\ ClaveOrden(a)[n] < ClaveOrden(b)[n]

\* C8 as claimed: consecutive output rows are strictly increasing.
C8_StrictlyIncreasing ==
    pc = "done" => \A i \in 1..(Len(Filas) - 1) : LexMenor(Filas[i], Filas[i + 1])

\* C8 as amended: consecutive output rows never decrease (two impressions with the
\* same day, user, offer and position are both kept, side by side).
C8_NonDecreasing ==
    pc = "done" => \A i \in 1..(Len(Filas) - 1) : ~LexMenor(Filas[i + 1], Filas[i])

\* C8's case: two impressions of the target week listed in the file in decreasing
\* order, both in the output.
C8_Witness ==
    /\ pc = "done" /\ Len(Filas) = 2 /\ Len(LineasP) = 2
    /\ LexMenor([day |-> LineasP[2].day, user_id |-> LineasP[2].user_id,
                 value_prop |-> LineasP[2].event_data.value_prop,
                 position |-> LineasP[2].event_data.position],
                [day |-> LineasP[1].day, user_id |-> LineasP[1].user_id,
                 value_prop |-> LineasP[1].event_data.value_prop,
                 position |-> LineasP[1].event_data.position])
    /\ LineasP[1].day = LineasP[2].day

\* a loaded table of events that fails a validation of normalizar_eventos
EventosConDefecto(raw) ==
    \/ ~(ColsEventos \subseteq raw.cols)
    \/ \E j \in DOMAIN raw.rows :
          \/ ~raw.rows[j].event_data.is_dict
          \/ raw.rows[j].day < 0
          \/ raw.rows[j].user_id < 0

\* a loaded payments table that fails a validation of lines 139-149
PaysConDefecto(raw) ==
    \/ ~(ColsPays \subseteq raw.cols)
    \/ \E j \in DOMAIN raw.rows : raw.rows[j].pay_date < 0 \/ raw.rows[j].total < 0

\* C9: a run that ended in an error has written nothing; the output is written only
\* by the last step of a run; and a run reaches that step only with three loaded
\* tables none of which fails a validation.
C9_AllOrNothing ==
    /\ pc = "error" => ~salida.escrito
    /\ salida.escrito => pc = "done"
    /\ pc \in {"ensamblar", "done"} =>
          /\ error = ""
          /\ ~EventosConDefecto(prints_raw)
          /\ ~EventosConDefecto(taps_raw)
          /\ ~PaysConDefecto(pays_raw)

\* C9's case: sound impressions and taps, normalized, and a payment whose total is no
\* number: the last validation of the run fails, and nothing is written.
C9_Witness ==
    /\ pc = "error" /\ error = "ValueError"
    /\ prints # <<>> /\ taps # <<>>
    /\ \E j \in DOMAIN pays_raw.rows : pays_raw.rows[j].total = BadText
    /\ ~salida.escrito

\* the (day, user_id, value_prop, position) of an impression line and of an output row
TuplaLinea(l) == <<l.day, l.user_id, l.event_data.value_prop, l.event_data.position>>
TuplaFila(f)  == <<f.day, f.user_id, f.value_prop, f.position>>

\* C10: the output rows are, as a multiset of (day, user_id, value_prop, position),
\* the impressions of the days UltimoDia-6 .. UltimoDia: each such impression as many
\* times as the log holds it, and nothing else.
C10_OutputGrain ==
    (pc = "done" /\ LineasP # <<>>) =>
        \A t \in {TuplaLinea(LineasP[j]) : j \in DOMAIN LineasP}
                 \cup {TuplaFila(Filas[i]) : i \in DOMAIN Filas} :
            Cardinality({i \in DOMAIN Filas : TuplaFila(Filas[i]) = t})
              = Cardinality({j \in DOMAIN LineasP :
                               /\ TuplaLinea(LineasP[j]) = t
                               /\ LineasP[j].day >= UltimoDia - 6
                               /\ LineasP[j].day <= UltimoDia})

\* C10's case: the latest impression is of day 22 and the log also holds one of day
\* 15, a day before the target week: only the first is in the output.
C10_Witness ==
    /\ pc = "done" /\ Len(LineasP) = 2 /\ Len(Filas) = 1
    /\ UltimoDia = 22
    /\ \E j \in DOMAIN LineasP : LineasP[j].day = 15

----------------------------------------------------------------------------
(* Claims about ventana_prev_21d (SpecWin) *)

RECURSIVE SumaCol(_, _)
\* the sum of column col over a set of rows
SumaCol(rows, col) ==
    IF rows = {} THEN 0
    ELSE LET r == CHOOSE x \in rows : TRUE IN r[col] + SumaCol(rows \ {r}, col)

\* the rows ventana_prev_21d produced for group k on day D
FilasDe(rl, k, D) ==
    {r \in rl : r.user_id = k[1] /\ r.value_prop = k[2] /\ r.day = D}
HayFila(rl, k, D) == FilasDe(rl, k, D) # {}
PrevDe(rl, k, D) == (CHOOSE r \in FilasDe(rl, k, D) : TRUE).prev

\* the metric of group k on day D in the table t, 0 when t has no such row
ValorDe(t, k, D) == SumaCol({r \in Grupo(t, k) : r.day = D}, "metric")

\* the tables t1 and t2 hold the same rows of group k on the days before D
IgualAntes(t1, t2, k, D) ==
    {r \in Grupo(t1, k) : r.day < D} = {r \in Grupo(t2, k) : r.day < D}

WinKeys == WinUsers \X WinOffers
\* every day a timeline of the model can hold, and the day after
WinSpan == 0..26

\* C1: no same-day or future leakage. Between two runs of ventana_prev_21d whose
\* tables agree, for a group, on every day before D: the value on day D is the same
\* wherever both runs produce a row for D, and the value on day D+1 differs by exactly
\* the difference of the metric on day D wherever both produce a row for D+1.
C1_NoLeakage ==
    [][\A k \in WinKeys, D \in WinSpan :
          IgualAntes(df, df', k, D) =>
             /\ (HayFila(roll, k, D) /\ HayFila(roll', k, D))
                    => PrevDe(roll', k, D) = PrevDe(roll, k, D)
             /\ (HayFila(roll, k, D + 1) /\ HayFila(roll', k, D + 1))
                    => PrevDe(roll', k, D + 1) - PrevDe(roll, k, D + 1)
                         = ValorDe(df', k, D) - ValorDe(df, k, D)
      ]_vars

\* C1's case: a group with history before day 4, a spike of 2 on day 4 and a later
\* row, so that day 4 and day 5 are both in the timeline; day 4 shows only the
\* history, day 5 the history and the spike.
C1_Witness ==
    \E k \in WinKeys :
        /\ ValorDe(df, k, 3) = 1 /\ ValorDe(df, k, 4) = 2 /\ ValorDe(df, k, 24) > 0
        /\ HayFila(roll, k, 4) /\ PrevDe(roll, k, 4) = 1
        /\ HayFila(roll, k, 5) /\ PrevDe(roll, k, 5) = 3

\* the reference window: the metric of group k summed over [max(first, D-21), D-1]
RefPrev(t, k, D) ==
    SumaCol({r \in Grupo(t, k) :
                /\ r.day >= Max(MinDay(Grupo(t, k)), D - 21)
                /\ r.day <= D - 1}, "metric")

\* C2: ventana_prev_21d returns, for every group, exactly one row per calendar day
\* from the group's first active day to its last, none outside, none for a group the
\* table does not hold, and the value on day D is the reference window's.
C2_ReferenceWindow ==
    /\ \A r \in roll : <<r.user_id, r.value_prop>> \in GroupKeys(df)
    /\ \A k \in GroupKeys(df) :
          LET g == Grupo(df, k) IN
          /\ \A D \in WinSpan :
                IF MinDay(g) <= D /\ D <= MaxDay(g)
                THEN /\ Cardinality(FilasDe(roll, k, D)) = 1
                     /\ PrevDe(roll, k, D) = RefPrev(df, k, D)
                ELSE FilasDe(roll, k, D) = {}
          /\ \A r \in roll : r.day \in WinSpan
          /\ PrevDe(roll, k, MinDay(g)) = 0

\* C2's case: a group active on day 1, day 4 and day 25: the row of day 25 counts
\* day 4 (25 - 21) and not day 1, and every day in between has a row.
C2_Witness ==
    \E k \in WinKeys :
        /\ {r.day : r \in Grupo(df, k)} = {1, 4, 25}
        /\ ValorDe(df, k, 1) = 2
        /\ PrevDe(roll, k, 25) = ValorDe(df, k, 4)
        /\ Cardinality({r \in roll : r.user_id = k[1] /\ r.value_prop = k[2]}) = 25

====
